---- MODULE Spec2Model ----
(***************************************************************************)
(* A model of gdap.py: class DistrictLookup, whose process_records walks   *)
(* the rows of a table, geocodes each address and looks up its districts.  *)
(*                                                                         *)
(* Cell values are strings.  None and NaN are the two null values of a     *)
(* pandas cell, Unbound is a local variable that has no value yet.         *)
(* A dict is a function on its keys, a list is a sequence.                 *)
(***************************************************************************)
EXTENDS Integers, Sequences, FiniteSets, TLC

None == "#None"
NaN == "#NaN"
Unbound == "#Unbound"

\* a local that will hold a dict or a row and has no value yet
UnboundDict == [unbound |-> "#Unbound"]

\* pd.notna(v)
NotNa(v) == v \notin {None, NaN}

\* bool(v) of a cell value: '' and None are false, NaN (a float) is true
Truthy(v) == v \notin {"", None}

\* str(v)
Str(v) == IF v = NaN THEN "nan" ELSE IF v = None THEN "None" ELSE v

UpperLetters == "ABCDEFGHIJKLMNOPQRSTUVWXYZ"
LowerLetters == "abcdefghijklmnopqrstuvwxyz"

\* str.lower() of one character
LowerChar(c) ==
    IF \E i \in 1..Len(UpperLetters) : SubSeq(UpperLetters, i, i) = c
    THEN LET i == CHOOSE k \in 1..Len(UpperLetters) : SubSeq(UpperLetters, k, k) = c
         IN  SubSeq(LowerLetters, i, i)
    ELSE c

\* s.lower(), from the i-th character on
RECURSIVE LowerFrom(_, _)
LowerFrom(s, i) ==
    IF i > Len(s) THEN ""
    ELSE LowerChar(SubSeq(s, i, i)) \o LowerFrom(s, i + 1)

\* s.lower()
Lower(s) == LowerFrom(s, 1)

\* needle in hay, for two strings
Contains(needle, hay) ==
    \E i \in 1..(Len(hay) - Len(needle) + 1) :
        SubSeq(hay, i, i + Len(needle) - 1) = needle

\* d.get(k, default) of a dict, row.get(k, default) of a row
Get(d, k, default) == IF k \in DOMAIN d THEN d[k] ELSE default

\* k in d, for a dict d
HasKey(d, k) == k \in DOMAIN d

InputColumns == {"Person Address", "Person city", "Person Zip Code"}

\* new_columns of load_data
NewColumns ==
    {"Latitude", "Longitude", "Geocoded_Address",
     "SF_Supervisorial_District", "Marin_Supervisor_District",
     "Congressional_District", "Census_PUMA", "Census_Tract", "Census_Block",
     "CA_Assembly_District", "CA_Senate_District",
     "Geocoding_Status", "Last_Updated"}

\* the municipality names of the county test
MarinCities ==
    {"san rafael", "novato", "mill valley", "tiburon", "sausalito",
     "corte madera", "larkspur", "fairfax", "san anselmo", "ross",
     "kentfield", "belvedere"}

\* 'san francisco' in str(city).lower()
MatchesSF(c) == \E lowered \in {Lower(Str(c))} : Contains("san francisco", lowered)

\* any(marin_city in str(city).lower() for marin_city in [...])
MatchesMarin(c) ==
    \E lowered \in {Lower(Str(c))} : \E m \in MarinCities : Contains(m, lowered)

\* not all([address, city, zip_code])
MissingAddressData(a, c, z) == ~(Truthy(a) /\ Truthy(c) /\ Truthy(z))

\* a skip that also asks for a stored status of Success
HasCoordinatesAndSuccess(r) ==
    /\ NotNa(Get(r, "Latitude", None)) /\ NotNa(Get(r, "Longitude", None))
    /\ Get(r, "Geocoding_Status", None) = "Success"

\* a skip that also asks for a stored formatted address
HasCoordinatesAndAddress(r) ==
    /\ NotNa(Get(r, "Latitude", None)) /\ NotNa(Get(r, "Longitude", None))
    /\ NotNa(Get(r, "Geocoded_Address", None))

\* pd.notna(row.get('Latitude')) and pd.notna(row.get('Longitude'))
HasCoordinates(r) ==
    NotNa(Get(r, "Latitude", None)) /\ NotNa(Get(r, "Longitude", None))


(***************************************************************************)
(* The adapters.  Each takes what the external service does for the call:  *)
(* a geocoder either matches, finds nothing or raises; an HTTP service     *)
(* either raises (connection, timeout, HTTP status, bad JSON) or answers   *)
(* with a JSON body.                                                       *)
(***************************************************************************)

\* geocode_address: the result dict for one outcome of geolocator.geocode
GeocodeAddress(resp) ==
    CASE resp.kind = "match" ->
            [latitude |-> resp.latitude, longitude |-> resp.longitude,
             formatted_address |-> resp.address, status |-> "Success"]
      [] resp.kind = "nomatch" -> [status |-> "Not Found"]
      [] resp.kind = "geocoder_error" -> [status |-> "Error: " \o resp.msg]
      [] OTHER -> [status |-> "Unexpected Error: " \o resp.msg]

\* a lookup whose failure looks like an answer without features
FeatureDistrictQuiet(resp) ==
    IF resp.kind = "raise" THEN [district |-> None]
    ELSE LET data == resp.data IN
         IF HasKey(data, "features") /\ Len(data.features) > 0
         THEN LET feature == data.features[1] IN
              IF HasKey(feature, "attributes")
              THEN [district |-> Get(feature.attributes, "DISTRICT", "Unknown")]
              ELSE [district |-> None]
         ELSE [district |-> None]

\* the body shared by get_sf_supervisorial_district and
\* get_marin_supervisor_district, after the HTTP GET
FeatureDistrict(resp) ==
    IF resp.kind = "raise" THEN [district |-> "Error"]
    ELSE LET data == resp.data IN
         IF HasKey(data, "features") /\ Len(data.features) > 0
         THEN LET feature == data.features[1] IN
              IF HasKey(feature, "attributes")
              THEN [district |-> Get(feature.attributes, "DISTRICT", "Unknown")]
              ELSE [district |-> "Error"]
         ELSE [district |-> None]

\* a municipal resolver that also returns the supervisor's name
SfDistrictAndSupervisor(resp) ==
    [supervisor |-> "Supervisor"] @@ FeatureDistrict(resp)

GetSfSupervisorialDistrict(resp) == FeatureDistrict(resp)

GetMarinSupervisorDistrict(resp) == FeatureDistrict(resp)

\* the first element's field of one geography level, else None
GeographyField(geographies, level, field) ==
    IF HasKey(geographies, level) /\ Len(geographies[level]) > 0
    THEN Get(geographies[level][1], field, None)
    ELSE None

\* get_census_data, after the HTTP GET
GetCensusData(resp) ==
    IF resp.kind = "raise"
    THEN [puma |-> "Error", tract |-> "Error", block |-> "Error"]
    ELSE LET data == resp.data IN
         IF HasKey(data, "result") /\ HasKey(data.result, "geographies")
         THEN LET g == data.result.geographies IN
              [puma |-> GeographyField(g, "Public Use Microdata Areas", "PUMA"),
               tract |-> GeographyField(g, "Census Tracts", "TRACT"),
               block |-> GeographyField(g, "Census Blocks", "BLOCK")]
         ELSE [puma |-> None, tract |-> None, block |-> None]

\* get_political_districts, after the HTTP GET
GetPoliticalDistricts(resp) ==
    IF resp.kind = "raise"
    THEN [congressional |-> "Error", assembly |-> "Error", senate |-> "Error"]
    ELSE LET data == resp.data IN
         IF HasKey(data, "results") /\ Len(data.results) > 0
         THEN LET result == data.results[1] IN
              [congressional |-> Get(result, "congress_district", None),
               assembly |-> Get(result, "state_lower_district", None),
               senate |-> Get(result, "state_upper_district", None)]
         ELSE [congressional |-> None, assembly |-> None, senate |-> None]


(***************************************************************************)
(* The inputs: what the services answer for a record, and the rows a       *)
(* loaded table holds.                                                     *)
(***************************************************************************)

Json(data) == [kind |-> "json", data |-> data]

Raise == [kind |-> "raise"]

GeoMatch ==
    [kind |-> "match", latitude |-> "37.7793", longitude |-> "-122.4193",
     address |-> "City Hall, SF, CA"]

GeoFailures ==
    {[kind |-> "nomatch"],
     [kind |-> "geocoder_error", msg |-> "Service timed out"],
     [kind |-> "error", msg |-> "connection reset"]}

FeatureHit == Json([features |-> <<[attributes |-> [DISTRICT |-> "6"]]>>])

FeatureOther ==
    {Json([features |-> <<>>]),
     Json([features |-> <<[attributes |-> [NAME |-> "District 6"]]>>]),
     Json([features |-> <<[geometry |-> "point"]>>]),
     Raise}

CensusHit ==
    Json([result |-> [geographies |->
        ("Public Use Microdata Areas" :> <<[PUMA |-> "07507"]>>)
        @@ ("Census Tracts" :> <<[TRACT |-> "012401"]>>)
        @@ ("Census Blocks" :> <<[BLOCK |-> "1002"]>>)]])

CensusOther ==
    {Json([result |-> [geographies |->
        ("Public Use Microdata Areas" :> <<>>)
        @@ ("Census Tracts" :> <<[TRACT |-> "012401"]>>)]]),
     Json([errors |-> <<"bad request">>]),
     Raise}

PoliticalHit ==
    Json([results |-> <<[congress_district |-> "11",
                         state_lower_district |-> "17",
                         state_upper_district |-> "11"]>>])

PoliticalOther ==
    {Json([results |-> <<>>]),
     Json([results |-> <<[block_fips |-> "060750124011002"]>>]),
     Raise}

\* every service answers with a match and the disk takes the checkpoint
AllFine ==
    [geo |-> GeoMatch, sf |-> FeatureHit, marin |-> FeatureHit,
     census |-> CensusHit, political |-> PoliticalHit, disk |-> "ok"]

\* a row as load_data leaves it: the three input columns, the stored
\* coordinate and status, and None in the other new columns
Row(address, city, zip, lat, lon, status) ==
    [c \in InputColumns \cup NewColumns |->
        CASE c = "Person Address" -> address
          [] c = "Person city" -> city
          [] c = "Person Zip Code" -> zip
          [] c = "Latitude" -> lat
          [] c = "Longitude" -> lon
          [] c = "Geocoding_Status" -> status
          [] OTHER -> None]

Street == "1 Dr Carlton B Goodlett Pl"

Zip == "94102"

Cities == {"San Francisco", "SAN FRANCISCO", "Oakland", "Novato", "Rossmoor"}

\* the forms a missing cell takes: '' and NaN
MissingForms == {"", NaN}

Fresh(city, svc) ==
    [row |-> Row(Street, city, Zip, None, None, None), svc |-> svc]

\* a record that was never geocoded, with a complete address
FreshRecords ==
    {Fresh(c, AllFine) : c \in Cities}
    \cup {Fresh("Oakland", [AllFine EXCEPT !.geo = g]) : g \in GeoFailures}
    \cup {Fresh("San Francisco", [AllFine EXCEPT !.sf = f]) : f \in FeatureOther}
    \cup {Fresh("Novato", [AllFine EXCEPT !.marin = f]) : f \in FeatureOther}
    \cup {Fresh("Oakland", [AllFine EXCEPT !.census = f]) : f \in CensusOther}
    \cup {Fresh("Oakland", [AllFine EXCEPT !.political = f]) : f \in PoliticalOther}
    \cup {Fresh("Oakland", [AllFine EXCEPT !.disk = "fail"])}

\* a record with one of address, city, postal code missing
IncompleteRecords ==
    {[row |-> Row(m, "Oakland", Zip, None, None, None), svc |-> AllFine] :
        m \in MissingForms}
    \cup {[row |-> Row(Street, m, Zip, None, None, None), svc |-> AllFine] :
        m \in MissingForms}
    \cup {[row |-> Row(Street, "San Francisco", m, None, None, None), svc |-> AllFine] :
        m \in MissingForms}

\* a record that carries a coordinate, or half of one, from an earlier run
StoredRecords ==
    {[row |-> Row(Street, c, Zip, "37.8044", "-122.2712", "Success"),
      svc |-> AllFine] : c \in {"San Francisco", "Oakland", "Novato"}}
    \cup {[row |-> Row(Street, "Oakland", Zip, "37.8044", "-122.2712", None),
           svc |-> AllFine],
          [row |-> Row(Street, "Oakland", Zip, "37.8044", NaN, None),
           svc |-> AllFine],
          [row |-> Row(Street, "Oakland", Zip, None, "-122.2712", "Not Found"),
           svc |-> [AllFine EXCEPT !.geo = [kind |-> "nomatch"]]],
          [row |-> Row(Street, "Oakland", Zip, None, None, "Success"),
           svc |-> [AllFine EXCEPT !.geo = [kind |-> "nomatch"]]]}

RecordKinds == FreshRecords \cup IncompleteRecords \cup StoredRecords

\* the records of the long tables: one that completes, one without an
\* address, one the geocoder does not find, one whose checkpoint fails
LongKinds ==
    {Fresh("Oakland", AllFine),
     [row |-> Row("", "Oakland", Zip, None, None, None), svc |-> AllFine],
     Fresh("Oakland", [AllFine EXCEPT !.geo = [kind |-> "nomatch"]]),
     Fresh("Oakland", [AllFine EXCEPT !.disk = "fail"])}

\* the output_filename a caller of export_results gives, None for none
OutputFilenames == {None, "districts.xlsx"}

MaxRecords == 2

LongLen == 21

MaxRuns == 2

\* the tables of n records: j records of one kind, then n - j of another
Tables(kinds, n) ==
    {[i \in 1..n |-> IF i <= j THEN a ELSE b] :
        j \in 0..n, a \in kinds, b \in kinds}

Datasets ==
    UNION {Tables(RecordKinds, n) : n \in 0..MaxRecords}
    \cup Tables(LongKinds, LongLen)


(***************************************************************************)
(* The state: the DataFrame, the position of process_records in its loop   *)
(* and its local variables, and a record of what the run did.              *)
(***************************************************************************)
VARIABLES
    df,             \* self.df: the rows, by position
    dataLoaded,     \* self.df is not None
    env,            \* what the services answer for each record
    loaded,         \* the table as load_data left it
    df0,            \* the table when the current run started
    run,            \* the number of the current call of process_records
    pc,             \* the statement process_records is at
    step,           \* the position within a block of df.at assignments
    index,          \* the loop's index
    row,            \* the loop's row
    address, city, zip_code, lat, lon,
    geocode_result, sf_district, marin_district,
    census_data, political_districts,
    processed,      \* the local counter
    exc,            \* str(e) of the exception being handled
    result,         \* what process_records returned
    calls,          \* per record and service, the arguments of the calls of this run
    writes,         \* per record and column, the number of assignments of this run
    counted,        \* the records this run counted as processed
    saves,          \* the calls of save_progress of this run
    files,          \* the names of the files written
    output_file,    \* what export_results returned
    slept,          \* the service class of the last wait no request has used yet
    clock           \* wall-clock time, in tenths of a second

locals ==
    <<address, city, zip_code, lat, lon, geocode_result, sf_district,
      marin_district, census_data, political_districts>>

history == <<calls, writes, counted, saves, files>>

vars ==
    <<df, dataLoaded, env, loaded, df0, run, pc, step, index, row, locals,
      processed, exc, result, history, output_file, slept, clock>>

Services == {"geocode", "sf", "marin", "census", "political"}

\* the columns process_records assigns
WrittenColumns == NewColumns \cup {"SF_Supervisor", "Marin_Supervisor"}

\* self.geocode_delay and self.api_delay, in tenths of a second
GeocodeDelay == 11

ApiDelay == 5

\* "Save progress every 10 records"
CheckpointEvery == 10

Pad2(n) == IF n < 10 THEN "0" \o ToString(n) ELSE ToString(n)

\* datetime.now().strftime('%Y-%m-%d %H:%M:%S'), the run starting at midnight
Timestamp(t) ==
    LET sec == t \div 10 IN
    "2024-01-01 " \o Pad2(sec \div 3600) \o ":" \o Pad2((sec \div 60) % 60)
        \o ":" \o Pad2(sec % 60)

\* datetime.now().strftime('%Y%m%d_%H%M%S')
FileStamp(t) ==
    LET sec == t \div 10 IN
    "20240101_" \o Pad2(sec \div 3600) \o Pad2((sec \div 60) % 60)
        \o Pad2(sec % 60)

\* temp_filename of save_progress
TempFilename(t) == "temp_geocode_" \o FileStamp(t) \o ".xlsx"

\* output_filename of export_results when the caller gives none
DefaultOutputFilename(t) ==
    "Geocoded_ActiveParticipants_" \o FileStamp(t) \o ".xlsx"

\* self.df.at[i, col] = v; a column the table lacks is added, NaN elsewhere
SetAt(d, i, col, v) ==
    IF col \in DOMAIN d[i]
    THEN [d EXCEPT ![i][col] = v]
    ELSE [j \in DOMAIN d |-> (col :> (IF j = i THEN v ELSE NaN)) @@ d[j]]

NoCalls(n) == [i \in 1..n |-> [s \in Services |-> <<>>]]

NoWrites(n) == [i \in 1..n |-> [c \in WrittenColumns |-> 0]]

\* a new frame of process_records: no local has a value
FreshFrame ==
    /\ step = 0
    /\ index = 0
    /\ row = UnboundDict
    /\ address = Unbound /\ city = Unbound /\ zip_code = Unbound
    /\ lat = Unbound /\ lon = Unbound
    /\ geocode_result = UnboundDict /\ sf_district = UnboundDict
    /\ marin_district = UnboundDict /\ census_data = UnboundDict
    /\ political_districts = UnboundDict
    /\ processed = 0
    /\ exc = Unbound
    /\ slept = "none"

\* after __init__ and load_data: a table is loaded, or loading failed
Init ==
    /\ \/ \E ds \in Datasets :
            /\ df = [i \in DOMAIN ds |-> ds[i].row]
            /\ env = [i \in DOMAIN ds |-> ds[i].svc]
            /\ dataLoaded = TRUE
       \/ /\ df = <<>>
          /\ env = <<>>
          /\ dataLoaded = FALSE
    /\ loaded = df
    /\ df0 = df
    /\ run = 1
    /\ pc = "start"
    /\ FreshFrame
    /\ result = Unbound
    /\ calls = NoCalls(Len(df))
    /\ writes = NoWrites(Len(df))
    /\ counted = {}
    /\ saves = 0
    /\ files = {}
    /\ output_file = Unbound
    /\ clock = 0


(***************************************************************************)
(* process_records, statement by statement.                                *)
(***************************************************************************)

fixed == <<dataLoaded, env, loaded>>

Wrote(i, col) == [writes EXCEPT ![i][col] = @ + 1]

Called(i, service, args) == [calls EXCEPT ![i][service] = Append(@, args)]

\* a failed geocode that falls through to the district lookups
FallThrough == "test_sf"

\* a failed geocode that is tried again
RetryGeocode == "geocode"

\* the statement after the loop's "continue" of a failed geocode
AfterGeocodeFailure == "loop"

\* a handler that ends the run without a result
AbortRun == "done"

\* the statement after the handler of the per-record try
AfterException == "loop"

\* str(e) of the UnboundLocalError of a read of city
UnboundCity ==
    "cannot access local variable 'city' where it is not associated with a value"

\* str(e) of the KeyError of d['supervisor']
NoSupervisor == "'supervisor'"

\* the status assigned before the coordinate
StatusFirstWrites(r) ==
    << <<"Geocoding_Status", "Success">>, <<"Latitude", r.latitude>>,
       <<"Longitude", r.longitude>>,
       <<"Geocoded_Address", r.formatted_address>> >>

\* the assignments after a successful geocode, in order
GeocodeWrites(r) ==
    << <<"Latitude", r.latitude>>, <<"Longitude", r.longitude>>,
       <<"Geocoded_Address", r.formatted_address>>,
       <<"Geocoding_Status", "Success">> >>

\* the assignments of the census block, in order
CensusWrites(c) ==
    << <<"Census_PUMA", c.puma>>, <<"Census_Tract", c.tract>>,
       <<"Census_Block", c.block>> >>

\* the assignments of the political block, in order
PoliticalWrites(p) ==
    << <<"Congressional_District", p.congressional>>,
       <<"CA_Assembly_District", p.assembly>>,
       <<"CA_Senate_District", p.senate>> >>

\* a checkpoint one record after every tenth
CheckpointDueAfter(p) == p % CheckpointEvery = 1

\* a checkpoint at every record from the tenth on
CheckpointDueFrom(p) == p >= CheckpointEvery

\* processed % 10 == 0
CheckpointDue(p) == p % CheckpointEvery = 0

\* the k-th assignment of a block, then the next one or the statement after
WriteBlock(block, after) ==
    /\ df' = SetAt(df, index, block[step][1], block[step][2])
    /\ writes' = Wrote(index, block[step][1])
    /\ IF step < Len(block)
       THEN step' = step + 1 /\ pc' = pc
       ELSE step' = 0 /\ pc' = after

\* the entry of process_records
Start ==
    /\ pc = "start"
    /\ IF dataLoaded
       THEN pc' = "loop" /\ result' = result
       ELSE pc' = "done" /\ result' = "False"
    /\ processed' = 0
    /\ UNCHANGED <<df, fixed, output_file, df0, run, step, index, row, locals, exc,
                   history, slept, clock>>

\* for index, row in self.df.iterrows()
NextRow ==
    /\ pc = "loop"
    /\ index < Len(df)
    /\ index' = index + 1
    /\ row' = df[index + 1]
    /\ pc' = "check"
    /\ UNCHANGED <<df, fixed, output_file, df0, run, step, locals, processed, exc, result,
                   history, slept, clock>>

\* the loop is exhausted: return True
Return ==
    /\ pc = "loop"
    /\ index = Len(df)
    /\ result' = "True"
    /\ pc' = "done"
    /\ UNCHANGED <<df, fixed, output_file, df0, run, step, index, row, locals, processed,
                   exc, history, slept, clock>>

\* the coordinate test, and in its else branch the three reads and the
\* test of the address
CheckCoordinates ==
    /\ pc = "check"
    /\ IF HasCoordinates(row)
       THEN /\ lat' = row["Latitude"]
            /\ lon' = row["Longitude"]
            /\ pc' = "test_sf"
            /\ UNCHANGED <<address, city, zip_code>>
       ELSE /\ address' = Get(row, "Person Address", "")
            /\ city' = Get(row, "Person city", "")
            /\ zip_code' = Get(row, "Person Zip Code", "")
            /\ pc' = IF MissingAddressData(address', city', zip_code')
                     THEN "missing" ELSE "geocode"
            /\ UNCHANGED <<lat, lon>>
    /\ UNCHANGED <<df, fixed, output_file, df0, run, step, index, row, geocode_result,
                   sf_district, marin_district, census_data,
                   political_districts, processed, exc, result, history,
                   slept, clock>>

\* Geocoding_Status = 'Missing Address Data'; continue
WriteMissing ==
    /\ pc = "missing"
    /\ df' = SetAt(df, index, "Geocoding_Status", "Missing Address Data")
    /\ writes' = Wrote(index, "Geocoding_Status")
    /\ pc' = "loop"
    /\ UNCHANGED <<fixed, output_file, df0, run, step, index, row, locals, processed, exc,
                   result, calls, counted, saves, files, slept, clock>>

\* one time.sleep before a request
Wait(at, class, delay, then) ==
    /\ pc = at
    /\ clock' = clock + delay
    /\ slept' = class
    /\ pc' = then
    /\ UNCHANGED <<df, fixed, output_file, df0, run, step, index, row, locals, processed,
                   exc, result, history>>

\* a geocode request that is not preceded by its wait
GeocodeNoWait ==
    /\ pc = "geocode"
    /\ pc' = "geocode_request"
    /\ UNCHANGED <<df, fixed, output_file, df0, run, step, index, row, locals,
                   processed, exc, result, history, slept, clock>>

\* time.sleep(self.geocode_delay) of geocode_address
GeocodeWait == Wait("geocode", "geocode", GeocodeDelay, "geocode_request")

\* geolocator.geocode and the rest of geocode_address, then the status test
GeocodeRequest ==
    /\ pc = "geocode_request"
    /\ geocode_result' = GeocodeAddress(env[index].geo)
    /\ calls' = Called(index, "geocode", <<address, city, zip_code>>)
    /\ slept' = "none"
    /\ IF geocode_result'.status = "Success"
       THEN pc' = "write_geocode" /\ step' = 1
       ELSE pc' = "geocode_failed" /\ step' = step
    /\ UNCHANGED <<df, fixed, output_file, df0, run, index, row, address, city, zip_code,
                   lat, lon, sf_district, marin_district, census_data,
                   political_districts, processed, exc, result, writes,
                   counted, saves, files, clock>>

\* lat, lon = ...; then the four assignments of the success branch
WriteGeocodeResult ==
    /\ pc = "write_geocode"
    /\ lat' = geocode_result.latitude
    /\ lon' = geocode_result.longitude
    /\ WriteBlock(GeocodeWrites(geocode_result), "test_sf")
    /\ UNCHANGED <<fixed, output_file, df0, run, index, row, address, city, zip_code,
                   geocode_result, sf_district, marin_district, census_data,
                   political_districts, processed, exc, result, calls,
                   counted, saves, files, slept, clock>>

\* Geocoding_Status = geocode_result['status']; continue
WriteGeocodeFailure ==
    /\ pc = "geocode_failed"
    /\ df' = SetAt(df, index, "Geocoding_Status", geocode_result.status)
    /\ writes' = Wrote(index, "Geocoding_Status")
    /\ pc' = AfterGeocodeFailure
    /\ UNCHANGED <<fixed, output_file, df0, run, step, index, row, locals, processed, exc,
                   result, calls, counted, saves, files, slept, clock>>


\* an exception leaves the try body for its handler
Throw(message) ==
    /\ exc' = message
    /\ pc' = "except"

\* if 'san francisco' in str(city).lower()
TestSF ==
    /\ pc = "test_sf"
    /\ IF city = Unbound
       THEN Throw(UnboundCity)
       ELSE /\ pc' = IF MatchesSF(city) THEN "sf" ELSE "test_marin"
            /\ exc' = exc
    /\ UNCHANGED <<df, fixed, output_file, df0, run, step, index, row, locals, processed,
                   result, history, slept, clock>>

SfWait == Wait("sf", "api", ApiDelay, "sf_request")

\* the GET of get_sf_supervisorial_district and what it returns
SfRequest ==
    /\ pc = "sf_request"
    /\ sf_district' = GetSfSupervisorialDistrict(env[index].sf)
    /\ calls' = Called(index, "sf", <<lat, lon>>)
    /\ slept' = "none"
    /\ pc' = "write_sf"
    /\ UNCHANGED <<df, fixed, output_file, df0, run, step, index, row, address, city,
                   zip_code, lat, lon, geocode_result, marin_district,
                   census_data, political_districts, processed, exc, result,
                   writes, counted, saves, files, clock>>

\* SF_Supervisorial_District = sf_district['district']
WriteSfDistrict ==
    /\ pc = "write_sf"
    /\ df' = SetAt(df, index, "SF_Supervisorial_District", sf_district.district)
    /\ writes' = Wrote(index, "SF_Supervisorial_District")
    /\ pc' = "write_sf_supervisor"
    /\ UNCHANGED <<fixed, output_file, df0, run, step, index, row, locals, processed, exc,
                   result, calls, counted, saves, files, slept, clock>>

\* SF_Supervisor = sf_district['supervisor']
WriteSfSupervisor ==
    /\ pc = "write_sf_supervisor"
    /\ IF HasKey(sf_district, "supervisor")
       THEN /\ df' = SetAt(df, index, "SF_Supervisor", sf_district["supervisor"])
            /\ writes' = Wrote(index, "SF_Supervisor")
            /\ pc' = "test_marin"
            /\ exc' = exc
       ELSE /\ Throw(NoSupervisor)
            /\ UNCHANGED <<df, writes>>
    /\ UNCHANGED <<fixed, output_file, df0, run, step, index, row, locals, processed,
                   result, calls, counted, saves, files, slept, clock>>

\* if any(marin_city in str(city).lower() for marin_city in [...])
TestMarin ==
    /\ pc = "test_marin"
    /\ pc' = IF MatchesMarin(city) THEN "marin" ELSE "census"
    /\ UNCHANGED <<df, fixed, output_file, df0, run, step, index, row, locals, processed,
                   exc, result, history, slept, clock>>

MarinWait == Wait("marin", "api", ApiDelay, "marin_request")

\* the GET of get_marin_supervisor_district and what it returns
MarinRequest ==
    /\ pc = "marin_request"
    /\ marin_district' = GetMarinSupervisorDistrict(env[index].marin)
    /\ calls' = Called(index, "marin", <<lat, lon>>)
    /\ slept' = "none"
    /\ pc' = "write_marin"
    /\ UNCHANGED <<df, fixed, output_file, df0, run, step, index, row, address, city,
                   zip_code, lat, lon, geocode_result, sf_district,
                   census_data, political_districts, processed, exc, result,
                   writes, counted, saves, files, clock>>

\* Marin_Supervisor_District = marin_district['district']
WriteMarinDistrict ==
    /\ pc = "write_marin"
    /\ df' = SetAt(df, index, "Marin_Supervisor_District", marin_district.district)
    /\ writes' = Wrote(index, "Marin_Supervisor_District")
    /\ pc' = "write_marin_supervisor"
    /\ UNCHANGED <<fixed, output_file, df0, run, step, index, row, locals, processed, exc,
                   result, calls, counted, saves, files, slept, clock>>

\* Marin_Supervisor = marin_district['supervisor']
WriteMarinSupervisor ==
    /\ pc = "write_marin_supervisor"
    /\ IF HasKey(marin_district, "supervisor")
       THEN /\ df' = SetAt(df, index, "Marin_Supervisor",
                           marin_district["supervisor"])
            /\ writes' = Wrote(index, "Marin_Supervisor")
            /\ pc' = "census"
            /\ exc' = exc
       ELSE /\ Throw(NoSupervisor)
            /\ UNCHANGED <<df, writes>>
    /\ UNCHANGED <<fixed, output_file, df0, run, step, index, row, locals, processed,
                   result, calls, counted, saves, files, slept, clock>>

CensusWait == Wait("census", "api", ApiDelay, "census_request")

\* the GET of get_census_data and what it returns
CensusRequest ==
    /\ pc = "census_request"
    /\ census_data' = GetCensusData(env[index].census)
    /\ calls' = Called(index, "census", <<lat, lon>>)
    /\ slept' = "none"
    /\ pc' = "write_census"
    /\ step' = 1
    /\ UNCHANGED <<df, fixed, output_file, df0, run, index, row, address, city, zip_code,
                   lat, lon, geocode_result, sf_district, marin_district,
                   political_districts, processed, exc, result, writes,
                   counted, saves, files, clock>>

\* the three assignments of the census block
WriteCensus ==
    /\ pc = "write_census"
    /\ WriteBlock(CensusWrites(census_data), "political")
    /\ UNCHANGED <<fixed, output_file, df0, run, index, row, locals, processed, exc,
                   result, calls, counted, saves, files, slept, clock>>

PoliticalWait == Wait("political", "api", ApiDelay, "political_request")

\* the GET of get_political_districts and what it returns
PoliticalRequest ==
    /\ pc = "political_request"
    /\ political_districts' = GetPoliticalDistricts(env[index].political)
    /\ calls' = Called(index, "political", <<lat, lon>>)
    /\ slept' = "none"
    /\ pc' = "write_political"
    /\ step' = 1
    /\ UNCHANGED <<df, fixed, output_file, df0, run, index, row, address, city, zip_code,
                   lat, lon, geocode_result, sf_district, marin_district,
                   census_data, processed, exc, result, writes, counted,
                   saves, files, clock>>

\* the three assignments of the political block
WritePolitical ==
    /\ pc = "write_political"
    /\ WriteBlock(PoliticalWrites(political_districts), "stamp")
    /\ UNCHANGED <<fixed, output_file, df0, run, index, row, locals, processed, exc,
                   result, calls, counted, saves, files, slept, clock>>

\* Last_Updated = datetime.now().strftime(...)
Stamp ==
    /\ pc = "stamp"
    /\ df' = SetAt(df, index, "Last_Updated", Timestamp(clock))
    /\ writes' = Wrote(index, "Last_Updated")
    /\ pc' = "count"
    /\ UNCHANGED <<fixed, output_file, df0, run, step, index, row, locals, processed, exc,
                   result, calls, counted, saves, files, slept, clock>>

\* processed += 1, and the test of the checkpoint
CountProcessed ==
    /\ pc = "count"
    /\ processed' = processed + 1
    /\ counted' = counted \cup {index}
    /\ pc' = IF CheckpointDue(processed') THEN "save" ELSE "loop"
    /\ UNCHANGED <<df, fixed, output_file, df0, run, step, index, row, locals, exc,
                   result, calls, writes, saves, files, slept, clock>>

\* save_progress: the table goes to a new file, or the failure is logged
SaveProgress ==
    /\ pc = "save"
    /\ saves' = saves + 1
    /\ files' = IF env[index].disk = "ok"
               THEN files \cup {TempFilename(clock)} ELSE files
    /\ pc' = "loop"
    /\ UNCHANGED <<df, fixed, output_file, df0, run, step, index, row, locals, processed,
                   exc, result, calls, writes, counted, slept, clock>>

\* except Exception as e: Geocoding_Status = f'Processing Error: {str(e)}'
HandleException ==
    /\ pc = "except"
    /\ df' = SetAt(df, index, "Geocoding_Status", "Processing Error: " \o exc)
    /\ writes' = Wrote(index, "Geocoding_Status")
    /\ pc' = AfterException
    /\ UNCHANGED <<fixed, output_file, df0, run, step, index, row, locals, processed, exc,
                   result, calls, counted, saves, files, slept, clock>>

\* process_records is called again on the table it left
Rerun ==
    /\ pc = "done"
    /\ run < MaxRuns
    /\ run' = run + 1
    /\ pc' = "start"
    /\ step' = 0
    /\ index' = 0
    /\ row' = UnboundDict
    /\ address' = Unbound /\ city' = Unbound /\ zip_code' = Unbound
    /\ lat' = Unbound /\ lon' = Unbound
    /\ geocode_result' = UnboundDict /\ sf_district' = UnboundDict
    /\ marin_district' = UnboundDict /\ census_data' = UnboundDict
    /\ political_districts' = UnboundDict
    /\ processed' = 0
    /\ exc' = Unbound
    /\ slept' = "none"
    /\ result' = Unbound
    /\ df0' = df
    /\ calls' = NoCalls(Len(df))
    /\ writes' = NoWrites(Len(df))
    /\ counted' = {}
    /\ saves' = 0
    /\ UNCHANGED <<df, fixed, output_file, files, clock>>

\* an export that reports the filename also when the write failed
ExportReturnAlways(written, output_filename) == output_filename

\* what export_results returns: the filename, or None when to_excel raised
ExportReturn(written, output_filename) ==
    IF written THEN output_filename ELSE None

\* export_results(output_filename), called as main does after
\* process_records returned True; to_excel writes the file or raises
Export ==
    /\ pc = "done"
    /\ result = "True"
    /\ \E given \in OutputFilenames, written \in BOOLEAN :
        LET output_filename ==
                IF given = None THEN DefaultOutputFilename(clock) ELSE given
        IN  /\ files' = IF written THEN files \cup {output_filename} ELSE files
            /\ output_file' = ExportReturn(written, output_filename)
    /\ pc' = "exported"
    /\ UNCHANGED <<df, fixed, df0, run, step, index, row, locals, processed,
                   exc, result, calls, writes, counted, saves, slept, clock>>

Next ==
    \/ Start \/ NextRow \/ Return \/ CheckCoordinates \/ WriteMissing
    \/ GeocodeWait \/ GeocodeRequest \/ WriteGeocodeResult
    \/ WriteGeocodeFailure
    \/ TestSF \/ SfWait \/ SfRequest \/ WriteSfDistrict \/ WriteSfSupervisor
    \/ TestMarin \/ MarinWait \/ MarinRequest \/ WriteMarinDistrict
    \/ WriteMarinSupervisor
    \/ CensusWait \/ CensusRequest \/ WriteCensus
    \/ PoliticalWait \/ PoliticalRequest \/ WritePolitical
    \/ Stamp \/ CountProcessed \/ SaveProgress \/ HandleException
    \/ Rerun \/ Export

Spec == Init /\ [][Next]_vars


(***************************************************************************)
(* The claims.                                                             *)
(***************************************************************************)

Records == 1..Len(df)

\* both coordinate cells of a row hold a value
StoredCoordinate(r) ==
    r["Latitude"] \notin {None, NaN} /\ r["Longitude"] \notin {None, NaN}

Resolvers == {"sf", "marin", "census", "political"}

CallCount(i, service) == Len(calls[i][service])

\* the run has left record i behind
Left(i) == index > i \/ (index = i /\ pc \in {"loop", "done"})

\* the geocoder was asked about record i in this run and did not succeed
GeocodeFailed(i) ==
    /\ CallCount(i, "geocode") > 0
    /\ GeocodeAddress(env[i].geo).status # "Success"

\* the geocoder was asked about record i in this run and succeeded
GeocodeSucceeded(i) ==
    /\ CallCount(i, "geocode") > 0
    /\ GeocodeAddress(env[i].geo).status = "Success"

Stamped(i) == writes[i]["Last_Updated"] > 0

\* C1: a record whose Latitude and Longitude are both non-null when the run
\* starts is never passed to geocode_address in that run.
C1_NoGeocodeWithCoordinates ==
    \A i \in Records : StoredCoordinate(df0[i]) => calls[i]["geocode"] = <<>>

\* a finished run over a table with a record that had its coordinate and a
\* record that was geocoded
C1_Witness ==
    /\ pc = "done"
    /\ \E i, j \in Records :
        /\ StoredCoordinate(df0[i])
        /\ CallCount(i, "geocode") = 0
        /\ ~StoredCoordinate(df0[j])
        /\ CallCount(j, "geocode") = 1

\* one of address, city, postal code is missing, as '' or as a null
Incomplete(r) ==
    \E c \in InputColumns : r[c] \in {"", None, NaN}

\* C2: after the run, a record without stored coordinates that misses one
\* of address, city, postal code (empty or NaN) has the status "Missing
\* Address Data", null coordinates, and no geocoder or resolver call.
C2_MissingAddressData ==
    pc = "done" =>
        \A i \in Records :
            (~StoredCoordinate(df0[i]) /\ Incomplete(df0[i])) =>
                /\ df[i]["Geocoding_Status"] = "Missing Address Data"
                /\ ~NotNa(df[i]["Latitude"])
                /\ ~NotNa(df[i]["Longitude"])
                /\ \A s \in Services : calls[i][s] = <<>>

\* C3: a record whose geocode attempt did not succeed keeps its coordinate
\* fields as they were (null stays null), has no resolver invoked, is not
\* stamped and not counted; once the run has left it, its status is the
\* status the geocoder adapter returned.
C3_GeocodeFailureTerminal ==
    \A i \in Records :
        GeocodeFailed(i) =>
            /\ df[i]["Latitude"] = df0[i]["Latitude"]
            /\ df[i]["Longitude"] = df0[i]["Longitude"]
            /\ ~StoredCoordinate(df[i])
            /\ \A s \in Resolvers : calls[i][s] = <<>>
            /\ ~Stamped(i)
            /\ i \notin counted
            /\ Left(i) =>
                df[i]["Geocoding_Status"] = GeocodeAddress(env[i].geo).status

\* a finished run in which the geocoder timed out for a record
C3_Witness ==
    /\ pc = "done"
    /\ \E i \in Records :
        /\ GeocodeFailed(i)
        /\ df[i]["Geocoding_Status"] = "Error: Service timed out"

SuccessHasCoordinates(table) ==
    \A i \in DOMAIN table :
        table[i]["Geocoding_Status"] = "Success" => StoredCoordinate(table[i])

\* C4: if no loaded record has the status "Success" with a null coordinate,
\* then in every state, also between two assignments of one record, every
\* record with the status "Success" has a non-null Latitude and Longitude.
C4_SuccessHasCoordinates ==
    SuccessHasCoordinates(loaded) => SuccessHasCoordinates(df)

\* between the assignment of Geocoded_Address and that of the status, and
\* right after the latter
C4_Witness ==
    /\ SuccessHasCoordinates(loaded)
    /\ pc = "test_sf"
    /\ writes[index]["Geocoding_Status"] = 1
    /\ df[index]["Geocoding_Status"] = "Success"
    /\ df0[index]["Geocoding_Status"] # "Success"
    /\ df[index]["Latitude"] = "37.7793"


\* record i came to the district lookups in this run, with a stored
\* coordinate or a fresh one
ReachedGeocoded(i) == StoredCoordinate(df0[i]) \/ GeocodeSucceeded(i)

OwnCity(i) == df0[i]["Person city"]

\* C5: after a run, a record that had its coordinate at the start was not
\* geocoded, its census and political lookups were made with the stored
\* coordinate, and the municipal and county lookups were made exactly when
\* its own city asks for them.
C5_LookupsAfterSkip ==
    pc = "done" =>
        \A i \in Records :
            StoredCoordinate(df0[i]) =>
                LET stored == <<df0[i]["Latitude"], df0[i]["Longitude"]>> IN
                /\ calls[i]["geocode"] = <<>>
                /\ calls[i]["census"] = <<stored>>
                /\ calls[i]["political"] = <<stored>>
                /\ CallCount(i, "sf") = (IF MatchesSF(OwnCity(i)) THEN 1 ELSE 0)
                /\ CallCount(i, "marin") =
                       (IF MatchesMarin(OwnCity(i)) THEN 1 ELSE 0)

\* C6: after a run, every record that came to the district lookups had the
\* census and the political resolver invoked once each, and its six fields
\* hold what the resolvers returned.
C6_CensusAndPoliticalAlways ==
    pc = "done" =>
        \A i \in Records :
            ReachedGeocoded(i) =>
                LET c == GetCensusData(env[i].census)
                    p == GetPoliticalDistricts(env[i].political)
                IN  /\ CallCount(i, "census") = 1
                    /\ CallCount(i, "political") = 1
                    /\ \A col \in {"Census_PUMA", "Census_Tract", "Census_Block",
                                   "Congressional_District",
                                   "CA_Assembly_District", "CA_Senate_District"} :
                           writes[i][col] = 1
                    /\ df[i]["Census_PUMA"] = c.puma
                    /\ df[i]["Census_Tract"] = c.tract
                    /\ df[i]["Census_Block"] = c.block
                    /\ df[i]["Congressional_District"] = p.congressional
                    /\ df[i]["CA_Assembly_District"] = p.assembly
                    /\ df[i]["CA_Senate_District"] = p.senate

\* C7: after a run, a record of the city "San Francisco", in any letter
\* case, that came to the district lookups had the municipal resolver
\* invoked once, and a record of the city "Oakland" never had it invoked.
C7_MunicipalByOwnCity ==
    pc = "done" =>
        \A i \in Records :
            /\ (Lower(Str(OwnCity(i))) = "san francisco" /\ ReachedGeocoded(i))
                   => CallCount(i, "sf") = 1
            /\ OwnCity(i) = "Oakland" => CallCount(i, "sf") = 0

\* C8: after a run, a record with a complete address in "San Francisco" and
\* no stored coordinate, for which every service answered with a match
\* (district 6, fixed census and political codes), has the status
\* "Success", the district 6, the six codes and a Last_Updated stamp.
C8_EndToEnd ==
    pc = "done" =>
        \A i \in Records :
            (/\ df0[i] = Row(Street, "San Francisco", Zip, None, None, None)
             /\ env[i] = AllFine) =>
                /\ df[i]["Geocoding_Status"] = "Success"
                /\ df[i]["SF_Supervisorial_District"] = "6"
                /\ df[i]["Census_PUMA"] = "07507"
                /\ df[i]["Census_Tract"] = "012401"
                /\ df[i]["Census_Block"] = "1002"
                /\ df[i]["Congressional_District"] = "11"
                /\ df[i]["CA_Assembly_District"] = "17"
                /\ df[i]["CA_Senate_District"] = "11"
                /\ NotNa(df[i]["Last_Updated"])

\* an exception is handled by writing its message as the status of the
\* current record and going on with the loop
ExceptionCaught ==
    pc = "except" =>
        /\ pc' = "loop"
        /\ index' = index
        /\ df'[index]["Geocoding_Status"] = "Processing Error: " \o exc
        /\ \A i \in Records \ {index} : df'[i] = df[i]

\* the loop's index moves one record forward, from the loop's head only,
\* and goes back to the start only for a new run
InIndexOrder ==
    index' # index =>
        \/ pc = "loop" /\ index < Len(df) /\ index' = index + 1
        \/ pc = "done" /\ index' = 0

\* the statements of process_records, in the order the control reaches them
\* within one record; "loop" is the loop's head after the record
Statements ==
    <<"start", "check", "missing", "geocode", "geocode_request",
      "write_geocode", "geocode_failed", "test_sf", "sf", "sf_request",
      "write_sf", "write_sf_supervisor", "test_marin", "marin",
      "marin_request", "write_marin", "write_marin_supervisor", "census",
      "census_request", "write_census", "political", "political_request",
      "write_political", "stamp", "count", "save", "except", "loop", "done",
      "exported">>

Rank(p) == CHOOSE k \in 1..Len(Statements) : Statements[k] = p

\* every step moves the run forward: a later run, a later record, a later
\* statement of the same record, or a later assignment of the same block
MovesForward ==
    \/ run' > run
    \/ run' = run /\ index' > index
    \/ run' = run /\ index' = index /\ Rank(pc') > Rank(pc)
    \/ run' = run /\ index' = index /\ pc' = pc /\ step' > step

\* C9: an exception raised while record i is processed is caught, makes
\* "Processing Error: <message>" the status of record i and leaves the loop
\* at its head; the records are visited one by one in index order; a run
\* over a loaded table that has ended has visited the last record and
\* returned True; and every run ends: each step moves it forward and it is
\* never stuck before process_records has returned.
C9_RunNeverAborts ==
    /\ [][ExceptionCaught /\ InIndexOrder /\ MovesForward]_vars
    /\ []((pc = "done" /\ dataLoaded) => (result = "True" /\ index = Len(df)))
    /\ [](pc \in {"done", "exported"} \/ ENABLED Next)

\* a finished run in which a record ended in the handler and the record
\* after it was processed to the end
C9_Witness ==
    /\ pc = "done"
    /\ result = "True"
    /\ \E i \in Records :
        /\ df[i]["Geocoding_Status"] = "Processing Error: " \o NoSupervisor
        /\ i + 1 \in counted

StampedRecords == {i \in Records : Stamped(i)}

\* C10: the local counter is the number of records stamped in this run (a
\* record is counted right after its stamp), and save_progress has been
\* called once for every full ten of them: at the end of the run
\* floor(P / 10) times, P the number of stamped records.
C10_CheckpointEveryTen ==
    /\ counted = StampedRecords \ (IF pc = "count" THEN {index} ELSE {})
    /\ processed = Cardinality(counted)
    /\ saves = (processed \div CheckpointEvery) - (IF pc = "save" THEN 1 ELSE 0)
    /\ pc = "save" => (index \in counted /\ processed > 0)
    /\ pc = "done" =>
        /\ saves = Cardinality(StampedRecords) \div CheckpointEvery
        /\ processed = Cardinality(StampedRecords)

\* a finished run with twenty completed records, two checkpoints, and a
\* record that left early
C10_Witness ==
    /\ pc = "done"
    /\ Cardinality(StampedRecords) = 2 * CheckpointEvery
    /\ saves = 2
    /\ \E i \in Records :
        /\ i \notin counted
        /\ df[i]["Geocoding_Status"] = "Missing Address Data"

\* the status record i has while this run works on it after the geocode
\* step: "Success" when the run geocoded it, else the one it came with
StatusOfThisRun(i) ==
    IF GeocodeSucceeded(i) THEN "Success" ELSE df0[i]["Geocoding_Status"]

\* save_progress is about to run and its write will fail
CheckpointFails == pc = "save" /\ env[index].disk = "fail"

\* the failed write changes nothing: no record, no file, no count, no
\* exception; the loop is at its head with the same record behind it
FailureSwallowed ==
    CheckpointFails =>
        /\ df' = df
        /\ files' = files
        /\ processed' = processed
        /\ counted' = counted
        /\ exc' = exc
        /\ index' = index
        /\ pc' = "loop"

\* export_results returns None and writes nothing, or returns the name of
\* the file it wrote: the name given, or the default with the timestamp
ExportReturnsOutcome ==
    (pc = "done" /\ pc' = "exported") =>
        \/ output_file' = None /\ files' = files
        \/ /\ output_file' \in files'
           /\ output_file' \in {DefaultOutputFilename(clock)}
                                \cup (OutputFilenames \ {None})

\* C11: a save_progress whose write fails changes no record, no file and no
\* count and leaves the loop at its head, from where the run goes on; the
\* record that triggered the checkpoint is counted, carries the Last_Updated
\* stamp of this run and the status it had after the geocode step, not a
\* "Processing Error" of the handler; export_results returns None when its
\* write fails and the name of the written file when it succeeds.
C11_CheckpointFailureSwallowed ==
    /\ [][FailureSwallowed /\ ExportReturnsOutcome]_vars
    /\ [](pc = "save" =>
            /\ index \in counted
            /\ writes[index]["Last_Updated"] = 1
            /\ NotNa(df[index]["Last_Updated"])
            /\ df[index]["Geocoding_Status"] = StatusOfThisRun(index))
    /\ []((pc \in {"loop", "done", "exported"} /\ saves > 0) =>
            \A i \in counted :
                /\ NotNa(df[i]["Last_Updated"])
                /\ df[i]["Geocoding_Status"] = StatusOfThisRun(i))

\* a first run of twenty-one records whose two checkpoints both failed and
\* that went on to the last record, then an export that failed too
C11_Witness ==
    /\ pc = "exported"
    /\ run = 1
    /\ saves = 2
    /\ files = {}
    /\ processed = LongLen
    /\ output_file = None
    /\ \A i \in Records : df[i]["Geocoding_Status"] = "Success"

\* the GET, the HTTP status or the JSON decoding raised
Raised(resp) == resp.kind = "raise"

\* a feature service answered and handling the answer raised: the first
\* feature has no attributes
FeatureHandlingRaised(resp) ==
    /\ resp.kind = "json"
    /\ "features" \in DOMAIN resp.data
    /\ resp.data.features # <<>>
    /\ "attributes" \notin DOMAIN resp.data.features[1]

\* a feature service answered with an empty list of features
NoFeatures(resp) ==
    /\ resp.kind = "json"
    /\ "features" \in DOMAIN resp.data
    /\ resp.data.features = <<>>

\* the census service answered with an empty list for a level
NoGeography(resp, level) ==
    /\ resp.kind = "json"
    /\ "result" \in DOMAIN resp.data
    /\ "geographies" \in DOMAIN resp.data.result
    /\ level \in DOMAIN resp.data.result.geographies
    /\ resp.data.result.geographies[level] = <<>>

\* the political service answered with an empty list of results
NoResults(resp) ==
    /\ resp.kind = "json"
    /\ "results" \in DOMAIN resp.data
    /\ resp.data.results = <<>>

\* what a cell must hold after a lookup that failed, or that found nothing
Outcome(failed, empty, value) ==
    /\ failed => value = "Error"
    /\ empty => value = None

FeatureOutcome(resp, value) ==
    Outcome(Raised(resp) \/ FeatureHandlingRaised(resp), NoFeatures(resp), value)

CensusLevels ==
    << <<"Public Use Microdata Areas", "puma", "Census_PUMA">>,
       <<"Census Tracts", "tract", "Census_Tract">>,
       <<"Census Blocks", "block", "Census_Block">> >>

PoliticalFields ==
    << <<"congressional", "Congressional_District">>,
       <<"assembly", "CA_Assembly_District">>,
       <<"senate", "CA_Senate_District">> >>

\* C12: for each of the four resolvers, an answer with an empty list gives
\* None and a failure of the request or of its handling gives 'Error', in
\* what the resolver returns and in the cells written from it, for each of
\* its fields; the only exceptions that reach the handler of
\* process_records are the two reads that process_records makes itself.
C12_EmptyIsNoneFailureIsError ==
    /\ pc \in {"write_sf", "write_sf_supervisor"} =>
           FeatureOutcome(env[index].sf, sf_district.district)
    /\ pc \in {"write_marin", "write_marin_supervisor"} =>
           FeatureOutcome(env[index].marin, marin_district.district)
    /\ pc = "write_census" =>
           \A k \in 1..3 :
               Outcome(Raised(env[index].census),
                       NoGeography(env[index].census, CensusLevels[k][1]),
                       census_data[CensusLevels[k][2]])
    /\ pc = "write_political" =>
           \A k \in 1..3 :
               Outcome(Raised(env[index].political),
                       NoResults(env[index].political),
                       political_districts[PoliticalFields[k][1]])
    /\ \A i \in Records :
        /\ writes[i]["SF_Supervisorial_District"] > 0 =>
               FeatureOutcome(env[i].sf, df[i]["SF_Supervisorial_District"])
        /\ writes[i]["Marin_Supervisor_District"] > 0 =>
               FeatureOutcome(env[i].marin, df[i]["Marin_Supervisor_District"])
        /\ \A k \in 1..3 :
            /\ writes[i][CensusLevels[k][3]] > 0 =>
                   Outcome(Raised(env[i].census),
                           NoGeography(env[i].census, CensusLevels[k][1]),
                           df[i][CensusLevels[k][3]])
            /\ writes[i][PoliticalFields[k][2]] > 0 =>
                   Outcome(Raised(env[i].political),
                           NoResults(env[i].political),
                           df[i][PoliticalFields[k][2]])
    /\ pc = "except" => exc \in {UnboundCity, NoSupervisor}

\* a finished run over a record whose census request raised and a record
\* whose political service answered with no results, both stamped
C12_Witness ==
    /\ pc = "done"
    /\ \E i, j \in Records :
        /\ Raised(env[i].census)
        /\ df[i]["Census_PUMA"] = "Error"
        /\ df[i]["Census_Block"] = "Error"
        /\ Stamped(i)
        /\ NoResults(env[j].political)
        /\ df[j]["CA_Senate_District"] = None
        /\ writes[j]["CA_Senate_District"] = 1
        /\ Stamped(j)

\* the coordinate and the district, census and political fields
ResolvedFields ==
    {"Latitude", "Longitude", "SF_Supervisorial_District",
     "Marin_Supervisor_District", "Census_PUMA", "Census_Tract",
     "Census_Block", "Congressional_District", "CA_Assembly_District",
     "CA_Senate_District"}

\* C13: in a run of process_records on the table an earlier run left, with
\* the same service answers, every record's coordinate and every municipal,
\* county, census and political field stays what it was when the run began.
C13_RerunIdempotent ==
    run > 1 =>
        \A i \in Records :
            \A col \in ResolvedFields : df[i][col] = df0[i][col]

\* the fields process_records produces
ProducedFields == NewColumns

\* C14: within one run, no produced field of a record is assigned more
\* than once; in particular Geocoding_Status is not.
C14_FieldsAssignedOnce ==
    \A i \in Records :
        \A col \in ProducedFields : writes[i][col] <= 1

\* C15: in one run the geocoder and each of the four resolvers is invoked
\* at most once for a record, whatever the call's outcome.
C15_NoRetry ==
    \A i \in Records :
        \A s \in Services : CallCount(i, s) <= 1

\* a finished run in which the geocoder raised for one record and the
\* census request raised for another: each was asked once
C15_Witness ==
    /\ pc = "done"
    /\ \E i, j \in Records :
        /\ env[i].geo.kind = "error"
        /\ CallCount(i, "geocode") = 1
        /\ df[i]["Geocoding_Status"] = "Unexpected Error: connection reset"
        /\ Raised(env[j].census)
        /\ CallCount(j, "census") = 1
        /\ CallCount(j, "political") = 1
        /\ df[j]["Census_Tract"] = "Error"

\* what remains of a record once the municipal (or county) resolver was
\* invoked for it: service names the resolver, col its district field
SupervisorDefect(i, service, col) ==
    CallCount(i, service) > 0 =>
        /\ CallCount(i, service) = 1
        /\ StoredCoordinate(df[i])
        /\ calls[i][service][1] = <<df[i]["Latitude"], df[i]["Longitude"]>>
        /\ calls[i]["census"] = <<>>
        /\ calls[i]["political"] = <<>>
        /\ ~Stamped(i)
        /\ i \notin counted
        /\ writes[i][col] > 0 =>
               /\ writes[i][col] = 1
               /\ df[i][col] = FeatureDistrict(env[i][service]).district
        /\ Left(i) =>
               /\ writes[i][col] = 1
               /\ df[i]["Geocoding_Status"] = "Processing Error: " \o NoSupervisor
               /\ writes[i]["Geocoding_Status"] =
                      (IF GeocodeSucceeded(i) THEN 2 ELSE 1)

\* C16: when the municipal or the county resolver is invoked for a record,
\* its district field is written with the resolver's result, the
\* supervisor-name column is never assigned (no result carries that key),
\* and the record ends the run with the status "Processing Error:
\* 'supervisor'", written over the "Success" of a geocode of the same run,
\* with its coordinate, without a census or political call, without a
\* stamp and uncounted.
C16_SupervisorAssignmentFails ==
    \A i \in Records :
        /\ SupervisorDefect(i, "sf", "SF_Supervisorial_District")
        /\ SupervisorDefect(i, "marin", "Marin_Supervisor_District")
        /\ writes[i]["SF_Supervisor"] = 0
        /\ writes[i]["Marin_Supervisor"] = 0
        /\ DOMAIN df[i] = InputColumns \cup NewColumns

\* a finished run with a record geocoded and given the district 6 by the
\* municipal resolver, and a record whose county request raised
C16_Witness ==
    /\ pc = "done"
    /\ \E i, j \in Records :
        /\ GeocodeSucceeded(i)
        /\ CallCount(i, "sf") = 1
        /\ df[i]["SF_Supervisorial_District"] = "6"
        /\ df[i]["Geocoding_Status"] = "Processing Error: " \o NoSupervisor
        /\ writes[i]["Geocoding_Status"] = 2
        /\ df[i]["Latitude"] = "37.7793"
        /\ CallCount(j, "marin") = 1
        /\ df[j]["Marin_Supervisor_District"] = "Error"
        /\ df[j]["Geocoding_Status"] = "Processing Error: " \o NoSupervisor

\* the city is one of the twelve names, in any letter case
IsMarinCity(c) == Lower(Str(c)) \in MarinCities

\* C17: after a run, the county resolver was invoked for a record exactly
\* when the record came to the district lookups and its own city is, in
\* any letter case, one of the twelve municipality names.
C17_CountyByOwnCity ==
    pc = "done" =>
        \A i \in Records :
            CallCount(i, "marin") > 0
                <=> (ReachedGeocoded(i) /\ IsMarinCity(OwnCity(i)))

\* the service class a request of a service waits for
ClassOf(service) == IF service = "geocode" THEN "geocode" ELSE "api"

\* the delay of a service class
DelayOf(class) == IF class = "geocode" THEN GeocodeDelay ELSE ApiDelay

\* the statement that sends the request of each service
RequestAt ==
    [geocode |-> "geocode_request", sf |-> "sf_request",
     marin |-> "marin_request", census |-> "census_request",
     political |-> "political_request"]

\* a request is sent right after a wait of its own class that no other
\* request has used, and uses it up
RequestAfterWait ==
    \A i \in Records : \A s \in Services :
        (run' = run /\ calls'[i][s] # calls[i][s]) =>
            /\ slept = ClassOf(s)
            /\ slept' = "none"
            /\ clock' = clock

\* a wait lasts the delay of its class and leads to the request
WaitThenRequest ==
    slept' \notin {slept, "none"} =>
        /\ slept = "none"
        /\ clock' = clock + DelayOf(slept')
        /\ \E s \in Services : pc' = RequestAt[s] /\ slept' = ClassOf(s)

\* C18: each request to the geocoder is sent right after one wait of the
\* geocoding delay and each resolver request right after one wait of the
\* API delay; the wait is used up by the request, so no two requests follow
\* each other without a wait of the later one's class; requests that fail
\* are preceded by the wait like the others.
C18_RateLimited ==
    /\ [][RequestAfterWait /\ WaitThenRequest]_vars
    /\ [](\A s \in Services : pc = RequestAt[s] => slept = ClassOf(s))
    /\ [](pc \notin {RequestAt[s] : s \in Services} => slept = "none")

\* the total of the delays of the requests of this run
Waited(i) ==
    CallCount(i, "geocode") * GeocodeDelay
    + (CallCount(i, "sf") + CallCount(i, "marin") + CallCount(i, "census")
       + CallCount(i, "political")) * ApiDelay

\* a finished first run of two records, the first with a geocoder that
\* timed out, the second with a political request that raised: the clock
\* shows two geocoding delays and two API delays
C18_Witness ==
    /\ pc = "done"
    /\ run = 1
    /\ Len(df) = 2
    /\ env[1].geo.kind = "geocoder_error"
    /\ CallCount(1, "geocode") = 1
    /\ Raised(env[2].political)
    /\ CallCount(2, "political") = 1
    /\ clock = Waited(1) + Waited(2)
    /\ clock = 2 * GeocodeDelay + 2 * ApiDelay

\* a record that has both coordinate cells filled keeps them
CoordinateKept ==
    \A i \in Records :
        StoredCoordinate(df[i]) =>
            /\ df'[i]["Latitude"] = df[i]["Latitude"]
            /\ df'[i]["Longitude"] = df[i]["Longitude"]

\* C19: once both coordinate cells of a record are non-null, no step of
\* this run or of a later run changes or clears them, also when the record
\* ends in "Processing Error"; and a run that finds a record with its
\* coordinate never assigns its Latitude, Longitude or Geocoded_Address.
C19_CoordinatesWriteOnce ==
    /\ [][CoordinateKept]_vars
    /\ [](\A i \in Records :
            StoredCoordinate(df0[i]) =>
                \A col \in {"Latitude", "Longitude", "Geocoded_Address"} :
                    /\ writes[i][col] = 0
                    /\ df[i][col] = df0[i][col])

\* the end of a second run: a record geocoded in the first run and not
\* again, which both runs ended in the handler, has the first run's
\* coordinate
C19_Witness ==
    /\ pc = "done"
    /\ run = 2
    /\ \E i \in Records :
        /\ ~StoredCoordinate(loaded[i])
        /\ df0[i]["Geocoding_Status"] = "Processing Error: " \o NoSupervisor
        /\ df[i]["Geocoding_Status"] = "Processing Error: " \o UnboundCity
        /\ df[i]["Latitude"] = "37.7793"
        /\ df[i]["Longitude"] = "-122.4193"
        /\ CallCount(i, "geocode") = 0

\* C20: when save_progress is about to run at record i, the counter is a
\* positive multiple of ten, record i has been assigned its Last_Updated
\* stamp and its six census and political fields in this run, with what
\* the resolvers returned, and no record after i has been assigned
\* anything in this run: it is as the run found it, in a first run as it
\* was loaded; in every state the records after the current one are
\* untouched.
C20_CheckpointSeesCompletedPrefix ==
    /\ pc = "save" =>
        /\ processed > 0
        /\ processed % CheckpointEvery = 0
        /\ writes[index]["Last_Updated"] = 1
        /\ NotNa(df[index]["Last_Updated"])
        /\ \A k \in 1..3 :
            /\ writes[index][CensusLevels[k][3]] = 1
            /\ df[index][CensusLevels[k][3]] = census_data[CensusLevels[k][2]]
            /\ writes[index][PoliticalFields[k][2]] = 1
            /\ df[index][PoliticalFields[k][2]] =
                   political_districts[PoliticalFields[k][1]]
    /\ \A j \in Records :
        j > index =>
            /\ df[j] = df0[j]
            /\ run = 1 => df[j] = loaded[j]
            /\ \A col \in WrittenColumns : writes[j][col] = 0
            /\ \A s \in Services : calls[j][s] = <<>>

\* the first checkpoint of a first run, at the eleventh record because an
\* earlier one left early, with ten records still to come
C20_Witness ==
    /\ pc = "save"
    /\ run = 1
    /\ processed = CheckpointEvery
    /\ index = CheckpointEvery + 1
    /\ Len(df) = LongLen
    /\ df[index]["Census_Block"] = "1002"
    /\ df[LongLen]["Census_Block"] = None

====
